---- MODULE Spec2Model ----
(***************************************************************************)
(* GromacsWrapper: the command wrapper (gromacs/core.py, GromacsCommand    *)
(* and PopenWithInput) and the start-up registry scan                      *)
(* (gromacs/__init__.py).                                                  *)
(*                                                                         *)
(* Python text (str) is a sequence of atoms: an atom is a character or a   *)
(* piece of text that no operation of the program splits.  Python objects  *)
(* are tagged records [t |-> type, v |-> payload].                         *)
(***************************************************************************)
EXTENDS Integers, Sequences, FiniteSets, TLC

VARIABLES
    self,      \* the wrapper instance: attribute name -> value
    phase,     \* "new" (not constructed), "alive", "dead" (constructor raised)
    ctor,      \* history: the positional and keyword flags the constructor got
    last,      \* the outcome of the last operation on the wrapper
    nreads,    \* reads of the gmxdoc property so far (the constructor's included)
    nruns,     \* calls of run so far
    nhelp,     \* processes created with the help switch so far
    todo,      \* registry scan: catalog class names not yet visited
    have,      \* _have_g_commands
    missing,   \* _missing_g_commands
    namespace, \* the module namespace: instance name -> wrapper instance
    filters,   \* warnings.filters, the newest first
    notices,   \* the warnings the scan has issued
    attempts,  \* history: class name -> how its construction went
    scan       \* registry scan: "loop", "done" or "raised"

wrapperVars == <<self, phase, ctor, last, nreads, nruns, nhelp>>
scanVars == <<todo, have, missing, namespace, filters, notices, attempts, scan>>
vars == <<wrapperVars, scanVars>>

-----------------------------------------------------------------------------
(* Bounds of the model.                                                    *)

MaxRc == 2          \* exit statuses range over -1 .. MaxRc
MaxOps == 2         \* operations on one wrapper after its construction
MaxElems == 2       \* longest list or tuple given as a flag value or as input
NTools == 3         \* entries of the tool catalog

-----------------------------------------------------------------------------
(* Python objects.                                                         *)

PyNone == [t |-> "none", v |-> 0]
PyBool(b) == [t |-> "bool", v |-> b]
PyTrue == PyBool(TRUE)
PyFalse == PyBool(FALSE)
PyStr(s) == [t |-> "str", v |-> s]
PyInt(n) == [t |-> "int", v |-> n]
PyList(xs) == [t |-> "list", v |-> xs]
PyTuple(xs) == [t |-> "tuple", v |-> xs]

\* subprocess.PIPE and subprocess.STDOUT, the special stream objects
PIPE == [t |-> "stream", v |-> "PIPE"]
STDOUT == [t |-> "stream", v |-> "STDOUT"]

Range(s) == { s[i] : i \in 1..Len(s) }

\* bool(x): the truth value Python's `if x:` tests
Truthy(x) ==
    CASE x.t = "none" -> FALSE
      [] x.t = "bool" -> x.v
      [] x.t = "int" -> x.v # 0
      [] x.t \in {"str", "list", "tuple"} -> Len(x.v) > 0
      [] OTHER -> TRUE

Digit(d) ==
    CASE d = 0 -> "0" [] d = 1 -> "1" [] d = 2 -> "2" [] d = 3 -> "3"
      [] d = 4 -> "4" [] d = 5 -> "5" [] d = 6 -> "6" [] d = 7 -> "7"
      [] d = 8 -> "8" [] OTHER -> "9"

RECURSIVE NatStr(_)
NatStr(n) == IF n < 10 THEN <<Digit(n)>> ELSE NatStr(n \div 10) \o <<Digit(n % 10)>>

IntStr(n) == IF n < 0 THEN <<"-">> \o NatStr(0 - n) ELSE NatStr(n)

RECURSIVE JoinText(_, _)
\* sep.join(parts) for a sequence of texts
JoinText(sep, parts) ==
    IF Len(parts) = 0 THEN <<>>
    ELSE IF Len(parts) = 1 THEN parts[1]
    ELSE parts[1] \o sep \o JoinText(sep, Tail(parts))

RECURSIVE Repr(_)
\* repr(x)
Repr(x) ==
    CASE x.t = "none" -> <<"None">>
      [] x.t = "bool" -> IF x.v THEN <<"True">> ELSE <<"False">>
      [] x.t = "int" -> IntStr(x.v)
      [] x.t = "str" -> <<"'">> \o x.v \o <<"'">>
      [] x.t = "list" ->
            <<"[">> \o JoinText(<<",", " ">>, [i \in 1..Len(x.v) |-> Repr(x.v[i])]) \o <<"]">>
      [] x.t = "tuple" ->
            <<"(">> \o JoinText(<<",", " ">>, [i \in 1..Len(x.v) |-> Repr(x.v[i])])
                    \o (IF Len(x.v) = 1 THEN <<",">> ELSE <<>>) \o <<")">>
      [] OTHER -> <<x.v>>

\* str(x): a str is itself, everything else prints as its repr
Str(x) == IF x.t = "str" THEN x.v ELSE Repr(x)

\* dict.update: d with the entries of e added, e's value winning
DictUpdate(d, e) ==
    [k \in (DOMAIN d) \cup (DOMAIN e) |-> IF k \in DOMAIN e THEN e[k] ELSE d[k]]

\* dict.pop(key, default): the value, and the dict without the key
DictGet(d, key, default) == IF key \in DOMAIN d THEN d[key] ELSE default
DictDel(d, key) == [k \in (DOMAIN d) \ {key} |-> d[k]]

EmptyDict == [k \in {} |-> PyNone]

\* dict.items() yields the keys in an order the language leaves open: hash is
\* an enumeration of all keys, and a dict's keys come in that order
Items(hash, d) == SelectSeq(hash, LAMBDA k : k \in DOMAIN d)

-----------------------------------------------------------------------------
(* The outside world: what creating and running the external process does. *)
(* spawn is "ok" or the errno of the OSError that process creation raises; *)
(* rc is the exit status; out and err are the texts the child writes to    *)
(* its standard output and standard error.                                 *)

Errnos == {"ENOENT", "EACCES", "ENOEXEC"}

Exc(type, errno, msg) == [type |-> type, errno |-> errno, msg |-> msg]
NoExc == Exc("none", PyNone, <<>>)
Errno(e) == [t |-> "errno", v |-> e]

\* the OSError subprocess.Popen raises when process creation fails
SpawnOSError(e) == Exc("OSError", Errno(e), <<"[Errno ", e, "]">>)

-----------------------------------------------------------------------------
(* gromacs/core.py: GromacsCommand                                         *)

failuremodes == {PyStr(<<"raise">>), PyStr(<<"warn">>), PyNone}

\* _combineargs: the switches as keys with value True, then the keywords
_combineargs(args, kwargs) ==
    DictUpdate([k \in Range(args) |-> PyTrue], kwargs)

\* the dash prefix of _build_arg_list
Dashed(flag) ==
    IF Len(flag) > 0 /\ flag[1] = "-" THEN flag ELSE <<"-">> \o flag

\* a slip of the loop body: the negated switch built from the whole flag
FlagTokensNoKeepsDash(flag, value) ==
    IF value = PyTrue THEN << PyStr(Dashed(flag)) >>
    ELSE IF value = PyFalse THEN << PyStr(<<"-", "n", "o">> \o Dashed(flag)) >>
    ELSE IF value.t = "list"
         THEN << PyStr(Dashed(flag)) >> \o value.v
         ELSE << PyStr(Dashed(flag)), value >>

\* a slip of the loop body: a list handed on as one value
FlagTokensListAsOne(flag, value) ==
    IF value = PyTrue THEN << PyStr(Dashed(flag)) >>
    ELSE IF value = PyFalse THEN << PyStr(<<"-", "n", "o">> \o Tail(Dashed(flag))) >>
    ELSE << PyStr(Dashed(flag)), value >>

\* one turn of the loop of _build_arg_list: what one flag adds to arglist
FlagTokens(flag, value) ==
    LET f == Dashed(flag) IN
    IF value = PyTrue THEN << PyStr(f) >>
    ELSE IF value = PyFalse THEN << PyStr(<<"-", "n", "o">> \o Tail(f)) >>
    ELSE IF value.t = "list"                 \* [flag] + value succeeds for a list only
         THEN << PyStr(f) >> \o value.v
         ELSE << PyStr(f), value >>          \* TypeError: option with single value

RECURSIVE ArgList(_, _)
ArgList(order, kwargs) ==
    IF Len(order) = 0 THEN <<>>
    ELSE FlagTokens(order[1], kwargs[order[1]]) \o ArgList(Tail(order), kwargs)

\* _build_arg_list: order is the order in which kwargs.items() yields the flags
_build_arg_list(order, kwargs) ==
    LET arglist == ArgList(order, kwargs) IN
    [i \in 1..Len(arglist) |-> Str(arglist[i])]

\* a slip of check_failure: an exit status below zero taken for success
SuccessNotNegative(rc) == rc >= 0

\* check_failure: success = (rc == 0)
Success(rc) == rc = 0

\* check_failure: the exception raised, the warnings issued, whether the
\* failure mode was looked at, and the value returned
check_failure(obj, rc) ==
    LET success == Success(rc)
        msg == <<"Gromacs tool failed">>
    IN  IF success
        THEN [exc |-> NoExc, warnings |-> <<>>, consulted |-> FALSE, success |-> TRUE]
        ELSE IF obj.failuremode = PyStr(<<"raise">>)
        THEN [exc |-> Exc("GromacsError", PyInt(rc), msg), warnings |-> <<>>,
              consulted |-> TRUE, success |-> FALSE]
        ELSE IF obj.failuremode = PyStr(<<"warn">>)
        THEN [exc |-> NoExc,
              warnings |-> << [category |-> "GromacsFailureWarning",
                               msg |-> msg \o <<"\n", "Error code: ">>
                                           \o Repr(PyInt(rc)) \o <<"\n">>] >>,
              consulted |-> TRUE, success |-> FALSE]
        ELSE IF obj.failuremode = PyNone
        THEN [exc |-> NoExc, warnings |-> <<>>, consulted |-> TRUE, success |-> FALSE]
        ELSE [exc |-> Exc("ValueError", PyNone,
                          <<"unknown failure mode ">> \o Repr(obj.failuremode)),
              warnings |-> <<>>, consulted |-> TRUE, success |-> FALSE]

\* Popen, the input: whether standard input becomes a pipe, and the payload
PopenInput(stdin, input) ==
    IF Truthy(input)
    THEN [stdin |-> PIPE,
          input |-> IF input.t # "str"
                    THEN IF input.t \in {"list", "tuple"}
                         THEN PyStr(JoinText(<<"\n">>,
                                             [i \in 1..Len(input.v) |-> Str(input.v[i])])
                                    \o <<"\n">>)
                         ELSE input          \* TypeError: not iterable, left as it is
                    ELSE input]
    ELSE [stdin |-> stdin, input |-> input]

\* Popen, the standard output argument
PopenStdout(stdout) ==
    IF stdout = PyFalse THEN PIPE
    ELSE IF stdout = PyTrue THEN PyNone
    ELSE stdout

\* a slip of Popen's except clause: every OSError re-raised as it came
PopenOSErrorUnchanged(obj, e) == SpawnOSError(e)

\* Popen, the except clause: the exception that leaves Popen when process
\* creation raised OSError with errno e
PopenOSError(obj, e) ==
    IF e = "ENOENT"
    THEN Exc("OSError", PyNone,
             <<"Failed to find Gromacs command '">> \o Repr(PyStr(obj.command_name))
                 \o <<"'. Source GMXRC.">>)
    ELSE SpawnOSError(e)

KwStdin == <<"stdin">>
KwStderr == <<"stderr">>
KwStdout == <<"stdout">>
KwInput == <<"input">>

\* Popen: the PopenWithInput instance p (its command, streams and input), or
\* the exception; emitted is what each flag added to the argument list
Popen(obj, args, kwargs, hash, env) ==
    LET stdin0 == DictGet(kwargs, KwStdin, PyNone)
        stderr == DictGet(kwargs, KwStderr, STDOUT)
        stdout == PopenStdout(DictGet(kwargs, KwStdout, PyNone))
        fed == PopenInput(stdin0, DictGet(kwargs, KwInput, PyNone))
        rest == DictDel(DictDel(DictDel(DictDel(kwargs, KwStdin), KwStderr), KwStdout), KwInput)
        newargs == _combineargs(args, rest)
        cmd == <<obj.command_name>> \o _build_arg_list(Items(hash, newargs), newargs)
    IN  [exc |-> IF env.spawn = "ok" THEN NoExc ELSE PopenOSError(obj, env.spawn),
         spawned |-> env.spawn = "ok",
         command |-> cmd, stdin |-> fed.stdin, stdout |-> stdout, stderr |-> stderr,
         input |-> fed.input,
         emitted |-> [k \in DOMAIN newargs |-> _build_arg_list(<<k>>, newargs)]]

\* PopenWithInput.communicate: (out, err), each the captured text when the
\* stream is a pipe and None otherwise (standard error merged into standard
\* output arrives with it)
communicate(p, env) ==
    [out |-> IF p.stdout = PIPE
             THEN PyStr(IF p.stderr = STDOUT THEN env.out \o env.err ELSE env.out)
             ELSE PyNone,
     err |-> IF p.stderr = PIPE THEN PyStr(env.err) ELSE PyNone]

\* the record of an invocation that was never made
NoRun ==
    [exc |-> NoExc, ret |-> PyNone, warnings |-> <<>>, consulted |-> FALSE,
     checked |-> FALSE, spawned |-> FALSE, command |-> <<>>, stdin |-> PyNone,
     input |-> PyNone, rc |-> PyNone, emitted |-> EmptyDict]

\* _run_command after p = self.Popen(...): communicate, check_failure, return
RunCommandOn(p, io, chk, rc) ==
    IF p.exc # NoExc
    THEN [NoRun EXCEPT !.exc = p.exc, !.spawned = p.spawned, !.command = p.command,
                       !.stdin = p.stdin, !.input = p.input, !.emitted = p.emitted]
    ELSE [exc |-> chk.exc,
          ret |-> IF chk.exc = NoExc THEN PyTuple(<<PyInt(rc), io.out, io.err>>)
                  ELSE PyNone,
          warnings |-> chk.warnings, consulted |-> chk.consulted, checked |-> TRUE,
          spawned |-> p.spawned, command |-> p.command, stdin |-> p.stdin,
          input |-> p.input, rc |-> PyInt(rc), emitted |-> p.emitted]

\* _run_command after p = self.Popen(...), with the process env
RunCommandWith(obj, env, p) ==
    RunCommandOn(p, communicate(p, env), check_failure(obj, env.rc), env.rc)

\* _run_command: what one invocation did.  exc is the exception that left it
\* (NoExc when it returned), ret the value returned
_run_command(obj, args, kwargs, hash, env) ==
    RunCommandWith(obj, env, Popen(obj, args, kwargs, hash, env))

Marker == "DESCRIPTION"
Placeholder == <<"(No Gromacs documentation available)">>

RECURSIVE FromMarker(_)
\* re.match(doc_pattern, docs, re.DOTALL): the text from the first marker on
FromMarker(text) ==
    IF Len(text) = 0 THEN <<>>
    ELSE IF Head(text) = Marker THEN text
    ELSE FromMarker(Tail(text))

\* _get_gmx_docs: the invocation with the help switch, and the text returned
\* _get_gmx_docs after rc, docs, nothing = self._run_command(...)
GmxDocsOf(r) ==
    [run |-> r,
     docs |-> IF r.exc # NoExc THEN <<>>
              ELSE IF Marker \in Range(r.ret.v[2].v) THEN FromMarker(r.ret.v[2].v)
              ELSE Placeholder]

_get_gmx_docs(obj, hash, env) ==
    GmxDocsOf(_run_command(obj, << <<"h">> >>, [k \in {KwStdout} |-> PIPE], hash, env))

SepWidth == 25

\* the attribute under which the class body's self.__doc_cache is stored and
\* read (the private name is mangled with the class name), and the name
\* hasattr is asked for (a string, which is not mangled)
DocCacheAttr == "_GromacsCommand__doc_cache"
DocCacheAsked == "__doc_cache"

\* gmxdoc (fget): the instance after the read, the text returned, and the
\* invocation made to fetch the documentation (ran = FALSE when none was)
\* fget: whether the documentation is fetched, i.e. the cache is not used
DocFetch(obj) ==
    ~ (DocCacheAsked \in DOMAIN obj /\ Truthy(PyStr(obj[DocCacheAttr])))

\* a slip of fget: the extra text joined without the separator lines
DocTextNoSeparator(obj) ==
    IF Truthy(obj.extra_doc)
    THEN JoinText(<<"\n">>, << obj[DocCacheAttr], Str(obj.extra_doc) >>)
    ELSE obj[DocCacheAttr]

\* fget from docs = self.__doc_cache on
DocText(obj) ==
    IF Truthy(obj.extra_doc)
    THEN JoinText(<<"\n">>,
                  << obj[DocCacheAttr], <<"Additional documentation:">>,
                     [i \in 1..SepWidth |-> "="], Str(obj.extra_doc) >>)
    ELSE obj[DocCacheAttr]

\* fget with g the outcome of self._get_gmx_docs()
GmxdocWith(obj, g) ==
    IF g.run.exc # NoExc
    THEN [obj |-> obj, exc |-> g.run.exc, docs |-> <<>>, ran |-> TRUE, run |-> g.run]
    ELSE [obj |-> [a \in (DOMAIN obj) \cup {DocCacheAttr} |->
                      IF a = DocCacheAttr THEN g.docs ELSE obj[a]],
          exc |-> NoExc,
          docs |-> DocText([a \in (DOMAIN obj) \cup {DocCacheAttr} |->
                              IF a = DocCacheAttr THEN g.docs ELSE obj[a]]),
          ran |-> TRUE, run |-> g.run]

gmxdoc(obj, hash, env) ==
    IF DocFetch(obj)
    THEN GmxdocWith(obj, _get_gmx_docs(obj, hash, env))
    ELSE [obj |-> obj, exc |-> NoExc, docs |-> DocText(obj), ran |-> FALSE, run |-> NoRun]

KwFailure == <<"failure">>
KwDoc == <<"doc">>

\* __init__: the instance built from the class (cls holds command_name), or
\* the exception
\* __init__ up to self.gmxargs = ...: the attributes set
InitAttrs(cls, args, kwargs) ==
    [a \in (DOMAIN cls) \cup {"failuremode", "extra_doc", "gmxargs"} |->
        CASE a = "failuremode" -> DictGet(kwargs, KwFailure, PyStr(<<"raise">>))
          [] a = "extra_doc" -> DictGet(kwargs, KwDoc, PyNone)
          [] a = "gmxargs" -> _combineargs(args, DictDel(DictDel(kwargs, KwFailure), KwDoc))
          [] OTHER -> cls[a]]

\* __init__, its last line: self.__doc__ = self.gmxdoc, d the outcome of the read
InitDoc(cls, d) ==
    IF d.exc # NoExc
    THEN [obj |-> cls, ran |-> d.ran, run |-> d.run, exc |-> d.exc]
    ELSE [obj |-> [a \in (DOMAIN d.obj) \cup {"__doc__"} |->
                      IF a = "__doc__" THEN d.docs ELSE d.obj[a]],
          ran |-> d.ran, run |-> d.run, exc |-> NoExc]

\* __init__: the instance built from the class (cls holds command_name), or
\* the exception
init(cls, args, kwargs, hash, env) ==
    IF DictGet(kwargs, KwFailure, PyStr(<<"raise">>)) \notin failuremodes
    THEN [obj |-> cls, ran |-> FALSE, run |-> NoRun,
          exc |-> Exc("ValueError", PyNone, <<"failuremode must be one of">>)]
    ELSE InitDoc(cls, gmxdoc(InitAttrs(cls, args, kwargs), hash, env))

\* a slip of run: the overrides written into the stored defaults (no copy)
RunArgsInPlace(gmxargs, args, kwargs) ==
    [used |-> DictUpdate(gmxargs, _combineargs(args, kwargs)),
     kept |-> DictUpdate(gmxargs, _combineargs(args, kwargs))]

\* run, the merge: the mapping handed to _run_command and the defaults the
\* instance keeps
RunArgs(gmxargs, args, kwargs) ==
    [used |-> DictUpdate(gmxargs, _combineargs(args, kwargs)), kept |-> gmxargs]

\* run (and __call__, which only calls run)
\* run with m the merge
RunWith(obj, hash, env, m) ==
    [obj |-> [obj EXCEPT !.gmxargs = m.kept],
     used |-> m.used,
     run |-> _run_command(obj, <<>>, m.used, hash, env)]

run(obj, args, kwargs, hash, env) ==
    RunWith(obj, hash, env, RunArgs(obj.gmxargs, args, kwargs))

-----------------------------------------------------------------------------
(* Operations on one wrapper instance.                                     *)

\* the class a wrapper is built from: a subclass that names its program
Cls(name) == [command_name |-> name]
ToolName == <<"g_dist">>

NoOp ==
    [op |-> "none", args |-> <<>>, kwargs |-> EmptyDict, used |-> EmptyDict,
     exc |-> NoExc, docs |-> <<>>, ran |-> FALSE, run |-> NoRun,
     env |-> [spawn |-> "none", rc |-> 0, out |-> <<>>, err |-> <<>>]]

\* cmd = GromacsCommand(*args, **kwargs)
Construct(args, kwargs, hash, env) ==
    /\ phase = "new"
    /\ \E r \in {init(Cls(ToolName), args, kwargs, hash, env)} :
       /\ self' = r.obj
       /\ phase' = IF r.exc = NoExc THEN "alive" ELSE "dead"
       /\ last' = [NoOp EXCEPT !.op = "init", !.args = args, !.kwargs = kwargs,
                               !.exc = r.exc, !.ran = r.ran, !.run = r.run,
                               !.docs = IF r.exc = NoExc THEN r.obj["__doc__"] ELSE <<>>,
                               !.env = env]
       /\ nreads' = IF r.ran THEN nreads + 1 ELSE nreads
       /\ nhelp' = IF r.ran /\ r.run.spawned THEN nhelp + 1 ELSE nhelp
    /\ ctor' = [args |-> args, kwargs |-> kwargs]
    /\ UNCHANGED <<nruns, scanVars>>

\* cmd.run(*args, **kwargs), cmd(*args, **kwargs)
Run(args, kwargs, hash, env) ==
    /\ phase = "alive"
    /\ nruns + nreads <= MaxOps
    /\ \E r \in {run(self, args, kwargs, hash, env)} :
       /\ self' = r.obj
       /\ last' = [NoOp EXCEPT !.op = "run", !.args = args, !.kwargs = kwargs,
                               !.used = r.used, !.exc = r.run.exc, !.ran = TRUE,
                               !.run = r.run, !.env = env]
    /\ nruns' = nruns + 1
    /\ UNCHANGED <<phase, ctor, nreads, nhelp, scanVars>>

\* cmd.gmxdoc
ReadGmxdoc(hash, env) ==
    /\ phase = "alive"
    /\ nruns + nreads <= MaxOps
    /\ \E r \in {gmxdoc(self, hash, env)} :
       /\ self' = r.obj
       /\ last' = [NoOp EXCEPT !.op = "gmxdoc", !.exc = r.exc, !.docs = r.docs,
                               !.ran = r.ran, !.run = r.run, !.env = env]
       /\ nhelp' = IF r.ran /\ r.run.spawned THEN nhelp + 1 ELSE nhelp
    /\ nreads' = nreads + 1
    /\ UNCHANGED <<phase, ctor, nruns, scanVars>>

-----------------------------------------------------------------------------
(* gromacs/__init__.py: the registry scan at import.                       *)

\* tools.registry: the class names of the catalog
CatalogNames ==
    << <<"G", "_", "d">>, <<"E", "d">>, <<"G", "_", "r">>, <<"M", "d">>,
       <<"T", "r">>, <<"G", "_", "e">> >>
Catalog == { CatalogNames[i] : i \in 1..NTools }

\* str.lower on one character
Lower(c) ==
    CASE c = "G" -> "g" [] c = "E" -> "e" [] c = "M" -> "m" [] c = "T" -> "t"
      [] OTHER -> c

\* clsname[0].lower() + clsname[1:]
InstanceName(clsname) == <<Lower(clsname[1])>> \o Tail(clsname)

\* the characters of instance names in code point order
CodePoints == <<"_", "d", "e", "g", "m", "r", "t">>
Ord(c) == CHOOSE i \in 1..Len(CodePoints) : CodePoints[i] = c

RECURSIVE StrLess(_, _)
\* a < b on strings
StrLess(a, b) ==
    IF Len(b) = 0 THEN FALSE
    ELSE IF Len(a) = 0 THEN TRUE
    ELSE IF Ord(a[1]) # Ord(b[1]) THEN Ord(a[1]) < Ord(b[1])
    ELSE StrLess(Tail(a), Tail(b))

RECURSIVE Insert(_, _)
Insert(x, sorted) ==
    IF Len(sorted) = 0 THEN <<x>>
    ELSE IF StrLess(x, sorted[1]) THEN <<x>> \o sorted
    ELSE <<sorted[1]>> \o Insert(x, Tail(sorted))

RECURSIVE Sorted(_)
\* list.sort()
Sorted(xs) == IF Len(xs) = 0 THEN <<>> ELSE Insert(xs[1], Sorted(Tail(xs)))

\* warnings.simplefilter(action, category)
simplefilter(fs, action, category) == <<[action |-> action, category |-> category]>> \o fs

\* a slip of the try statement: no except clause for OSError
ScanHandleNoOSError(exc) ==
    IF exc.type = "none" THEN "have"
    ELSE IF exc.type = "GromacsError" THEN "pass"
    ELSE "raise"

\* a slip of the try statement: GromacsError caught with OSError
ScanHandleOneExcept(exc) ==
    IF exc.type = "none" THEN "have"
    ELSE IF exc.type \in {"GromacsError", "OSError"} THEN "missing"
    ELSE "raise"

\* the try statement of the loop: what becomes of the instance name when
\* the constructor left with exception exc
ScanHandle(exc) ==
    IF exc.type = "none" THEN "have"
    ELSE IF exc.type = "GromacsError" THEN "pass"
    ELSE IF exc.type = "OSError" THEN "missing"
    ELSE "raise"

\* one turn of the loop over tools.registry.items()
ScanStep(clsname, hash, env) ==
    /\ scan = "loop"
    /\ clsname \in todo
    /\ \E name \in {InstanceName(clsname)} :
       \E r \in {init(Cls(name), <<>>, EmptyDict, hash, env)} :
       \E h \in {ScanHandle(r.exc)} :
           /\ have' = IF h = "have" THEN Append(have, name) ELSE have
           /\ missing' = IF h = "missing" THEN Append(missing, name) ELSE missing
           /\ namespace' = IF h = "have"
                           THEN [n \in (DOMAIN namespace) \cup {name} |->
                                    IF n = name THEN r.obj ELSE namespace[n]]
                           ELSE namespace
           /\ scan' = IF h = "raise" THEN "raised" ELSE "loop"
           /\ attempts' = [c \in (DOMAIN attempts) \cup {clsname} |->
                             IF c = clsname
                             THEN [name |-> name, spawn |-> env.spawn, rc |-> env.rc,
                                   exc |-> r.exc]
                             ELSE attempts[c]]
    /\ todo' = todo \ {clsname}
    /\ UNCHANGED <<filters, notices, wrapperVars>>

\* after the loop: the filters, the sorts and the notice
ScanFinish ==
    /\ scan = "loop"
    /\ todo = {}
    /\ filters' = simplefilter(simplefilter(filters, "default", "GromacsFailureWarning"),
                               "default", "GromacsImportWarning")
    /\ have' = Sorted(have)
    /\ missing' = Sorted(missing)
    /\ notices' = IF Len(missing) > 0
                  THEN Append(notices, [category |-> "GromacsImportWarning",
                                        missing |-> Sorted(missing)])
                  ELSE notices
    /\ scan' = "done"
    /\ UNCHANGED <<todo, namespace, attempts, wrapperVars>>

-----------------------------------------------------------------------------
(* The initial state and the inputs.                                       *)

Init ==
    /\ self = Cls(ToolName)
    /\ phase = "new"
    /\ ctor = [args |-> <<>>, kwargs |-> EmptyDict]
    /\ last = NoOp
    /\ nreads = 0
    /\ nruns = 0
    /\ nhelp = 0
    /\ todo = Catalog
    /\ have = <<>>
    /\ missing = <<>>
    /\ namespace = [n \in {} |-> Cls(ToolName)]
    /\ filters = simplefilter(<<>>, "ignore", "GromacsFailureWarning")
    /\ notices = <<>>
    /\ attempts = [c \in {} |-> NoOp]
    /\ scan = "loop"

\* what the program writes when asked for help, and what it writes otherwise
Outs == { <<"usage">>, <<"usage", Marker, "text">>, <<Marker, "a", Marker, "b">> }
ErrText == <<"Fatal error">>

\* the processes with an exit status out of rcs and an output out of outs,
\* and the failures of process creation
EnvsOf(rcs, outs) ==
    { [spawn |-> "ok", rc |-> rc, out |-> out, err |-> ErrText] :
        rc \in rcs, out \in outs }
    \cup { [spawn |-> e, rc |-> 0, out |-> <<>>, err |-> <<>>] : e \in Errnos }

Envs == EnvsOf((0 - 1)..MaxRc, {<<"usage", Marker, "text">>})

OkEnv == [spawn |-> "ok", rc |-> 0, out |-> <<"usage", Marker, "text">>, err |-> <<>>]

\* the dicts with at most n keys out of keys and values out of values
Dicts(keys, values, n) ==
    UNION { [K -> values] : K \in { K \in SUBSET keys : Cardinality(K) <= n } }

\* the sequences of at most n elements of S
SeqsUpTo(S, n) == UNION { [1..m -> S] : m \in 0..n }

\* the enumerations of the flag names S, the help switch first
Hashes(S) ==
    { << <<"h">> >> \o o : o \in { o \in [1..Cardinality(S) -> S] :
                                  \A i, j \in 1..Cardinality(S) : i # j => o[i] # o[j] } }

-----------------------------------------------------------------------------
(* Spec: one wrapper, its calls and its failure policy.                    *)

PolicyValues == failuremodes \cup {PyStr(<<"ignore">>)}

FlagF == <<"f">>
StreamCalls ==
    { EmptyDict,
      [k \in {FlagF} |-> PyStr(<<"md.xtc">>)],
      [k \in {KwStdout} |-> PyFalse],
      [k \in {KwStdout, KwStderr} |-> PIPE],
      [k \in {KwStdout} |-> PyTrue] }

Next ==
    \/ \E kw \in Dicts({KwFailure}, PolicyValues, 1), hash \in Hashes({FlagF}),
          env \in Envs :
          Construct(<<>>, kw, hash, env)
    \/ \E kw \in StreamCalls, hash \in Hashes({FlagF}), env \in Envs :
          Run(<<>>, kw, hash, env)
    \/ \E hash \in Hashes({FlagF}), env \in Envs : ReadGmxdoc(hash, env)

Spec == Init /\ [][Next]_vars

-----------------------------------------------------------------------------
(* SpecDoc: one wrapper and its documentation.                             *)

DocValues == {PyNone, PyStr(<<>>), PyStr(<<"See also g_rms.">>)}

DocKwargs ==
    { DictUpdate(f, d) : f \in Dicts({KwFailure}, {PyStr(<<"warn">>)}, 1),
                         d \in Dicts({KwDoc}, DocValues, 1) }

DocEnvs == EnvsOf(0..1, Outs)

NextDoc ==
    \/ \E kw \in DocKwargs, hash \in Hashes({FlagF}), env \in DocEnvs :
          Construct(<<>>, kw, hash, env)
    \/ \E hash \in Hashes({FlagF}), env \in DocEnvs : Run(<<>>, EmptyDict, hash, env)
    \/ \E hash \in Hashes({FlagF}), env \in DocEnvs : ReadGmxdoc(hash, env)

SpecDoc == Init /\ [][NextDoc]_vars

-----------------------------------------------------------------------------
(* SpecFlags: the flags of one call and their serialization.               *)

FlagV == <<"v">>
FlagDashV == <<"-", "v">>
Flags == {FlagV, FlagDashV, FlagF}

Elems == {PyStr(<<"md.xtc">>), PyInt(7)}
FlagValues ==
    {PyTrue, PyFalse, PyStr(<<"out.xvg">>), PyInt(200)}
    \cup { PyList(xs) : xs \in SeqsUpTo(Elems, MaxElems) }
    \cup { PyTuple(xs) : xs \in SeqsUpTo({PyStr(<<"md.xtc">>)}, MaxElems) }

FlagDefaults ==
    { EmptyDict, [k \in {FlagF} |-> PyList(<<PyStr(<<"md.xtc">>)>>)],
      [k \in {FlagV} |-> PyFalse] }

NextFlags ==
    \/ \E kw \in FlagDefaults, hash \in Hashes(Flags) : Construct(<<>>, kw, hash, OkEnv)
    \/ \E a \in SeqsUpTo({FlagV}, 1), kw \in Dicts(Flags, FlagValues, 1),
          hash \in Hashes(Flags) :
          Run(a, kw, hash, OkEnv)

SpecFlags == Init /\ [][NextFlags]_vars

-----------------------------------------------------------------------------
(* SpecMerge: constructor defaults and call-time overrides.                *)

MergeValues == {PyTrue, PyFalse, PyStr(<<"out.xvg">>)}

NextMerge ==
    \/ \E a \in SeqsUpTo({FlagV}, 1), kw \in Dicts(Flags, MergeValues, 1),
          hash \in Hashes(Flags) :
          Construct(a, kw, hash, OkEnv)
    \/ \E a \in SeqsUpTo({FlagV}, 1), kw \in Dicts(Flags, MergeValues, 1),
          hash \in Hashes(Flags) :
          Run(a, kw, hash, OkEnv)

SpecMerge == Init /\ [][NextMerge]_vars

-----------------------------------------------------------------------------
(* SpecInput: the input argument of a call.                                *)

InputElems == {PyStr(<<"keep 1">>), PyStr(<<>>), PyInt(2)}
Inputs ==
    {PyNone, PyStr(<<>>), PyStr(<<"q">>), PyStr(<<"a", "\n", "b">>), PyInt(5), PyInt(0)}
    \cup { PyList(xs) : xs \in SeqsUpTo(InputElems, MaxElems) }
    \cup { PyTuple(xs) : xs \in SeqsUpTo(InputElems, MaxElems) }

InputCalls ==
    { DictUpdate(i, o) : i \in Dicts({KwInput}, Inputs, 1),
                         o \in Dicts({KwStdin}, {PIPE}, 1) }

NextInput ==
    \/ \E hash \in Hashes({FlagF}) : Construct(<<>>, EmptyDict, hash, OkEnv)
    \/ \E kw \in InputCalls, hash \in Hashes({FlagF}) : Run(<<>>, kw, hash, OkEnv)

SpecInput == Init /\ [][NextInput]_vars

-----------------------------------------------------------------------------
(* SpecScan: the registry scan.                                            *)

ScanEnvs == EnvsOf(0..1, {<<"usage", Marker, "text">>})

NextScan ==
    \/ \E clsname \in Catalog, hash \in Hashes({FlagF}), env \in ScanEnvs :
          ScanStep(clsname, hash, env)
    \/ ScanFinish

SpecScan == Init /\ [][NextScan]_vars

-----------------------------------------------------------------------------
(* Properties of one wrapper.                                              *)

IsTriple(ret, rc, env) ==
    /\ ret.t = "tuple"
    /\ Len(ret.v) = 3
    /\ ret.v[1] = PyInt(rc)
    /\ ret.v[2] \in {PyNone, PyStr(env.out), PyStr(env.out \o env.err)}
    /\ ret.v[3] \in {PyNone, PyStr(env.err)}

\* C1: an invocation by run whose process was created: with exit status 0
\* the triple (status, stdout, stderr) is returned, no exception and no
\* warning, whatever the failure mode; with a non-zero status, 'raise'
\* raises GromacsError carrying the status and returns nothing, 'warn' issues
\* one GromacsFailureWarning and returns the triple, None issues nothing and
\* returns the triple.
C1_FailurePolicy ==
    (last.op = "run" /\ last.env.spawn = "ok") =>
        IF last.env.rc = 0
        THEN /\ last.run.exc = NoExc
             /\ last.run.warnings = <<>>
             /\ IsTriple(last.run.ret, 0, last.env)
        ELSE IF self.failuremode = PyStr(<<"raise">>)
        THEN /\ last.run.exc.type = "GromacsError"
             /\ last.run.exc.errno = PyInt(last.env.rc)
             /\ last.run.ret = PyNone
        ELSE IF self.failuremode = PyStr(<<"warn">>)
        THEN /\ last.run.exc = NoExc
             /\ Len(last.run.warnings) = 1
             /\ last.run.warnings[1].category = "GromacsFailureWarning"
             /\ IsTriple(last.run.ret, last.env.rc, last.env)
        ELSE /\ self.failuremode = PyNone
             /\ last.run.exc = NoExc
             /\ last.run.warnings = <<>>
             /\ IsTriple(last.run.ret, last.env.rc, last.env)

C1_Witness ==
    /\ last.op = "run"
    /\ last.env.spawn = "ok"
    /\ last.env.rc < 0
    /\ self.failuremode = PyStr(<<"warn">>)
    /\ Len(last.run.warnings) = 1
    /\ last.run.ret # PyNone

\* text part occurs in text whole
Occurs(part, whole) ==
    \E i \in 1..Len(whole) :
        /\ i + Len(part) - 1 <= Len(whole)
        /\ SubSeq(whole, i, i + Len(part) - 1) = part

\* C2: an invocation (by run, by a read of gmxdoc, by the constructor) whose
\* process creation fails with ENOENT raises an OSError whose message names
\* the command and tells to source GMXRC; check_failure is not reached, no
\* warning is issued and nothing is returned, under every failure mode.  Any
\* other OSError of process creation leaves as it came.
C2_MissingExecutable ==
    (last.op \in {"run", "gmxdoc", "init"} /\ last.ran) =>
        /\ last.env.spawn = "ENOENT" =>
              /\ last.run.exc.type = "OSError"
              /\ Occurs(ToolName, last.run.exc.msg)
              /\ Occurs(<<"'. Source GMXRC.">>, last.run.exc.msg)
              /\ ~ last.run.checked
              /\ ~ last.run.consulted
              /\ last.run.warnings = <<>>
              /\ last.run.ret = PyNone
        /\ last.env.spawn \in Errnos \ {"ENOENT"} =>
              /\ last.run.exc = SpawnOSError(last.env.spawn)
              /\ last.run.ret = PyNone

C2_Witness ==
    /\ last.op = "run"
    /\ last.env.spawn = "ENOENT"
    /\ self.failuremode = PyStr(<<"warn">>)
    /\ last.run.exc.type = "OSError"

\* C8: on one wrapper the program is run with the help switch at most once,
\* however often gmxdoc is read.
C8_HelpRunAtMostOnce == nhelp <= 1

\* the text scraped from the captured help output
IsScraped(docs, captured) ==
    \/ Marker \notin Range(captured) /\ docs = Placeholder
    \/ \E i \in 1..Len(captured) :
          /\ captured[i] = Marker
          /\ \A j \in 1..(i - 1) : captured[j] # Marker
          /\ docs = SubSeq(captured, i, Len(captured))

SeparatorLines ==
    <<"\n", "Additional documentation:", "\n">> \o [i \in 1..SepWidth |-> "="] \o <<"\n">>

\* C9: a read of the documentation that fetched the help text yields, for a
\* wrapper with a non-empty extra text, the scraped text (the placeholder
\* without marker), the separator lines and the extra text; for a wrapper
\* without extra text, the scraped text alone.
C9_ExtraDoc ==
    (last.op \in {"init", "gmxdoc"} /\ last.ran /\ last.exc = NoExc) =>
        IF self.extra_doc.t = "str" /\ Len(self.extra_doc.v) > 0
        THEN \E n \in 1..Len(last.docs) :
                /\ IsScraped(SubSeq(last.docs, 1, n), last.run.ret.v[2].v)
                /\ SubSeq(last.docs, n + 1, Len(last.docs))
                      = SeparatorLines \o self.extra_doc.v
        ELSE IsScraped(last.docs, last.run.ret.v[2].v)

C9_Witness ==
    /\ last.op = "gmxdoc"
    /\ last.exc = NoExc
    /\ self.extra_doc = PyStr(<<"See also g_rms.">>)
    /\ Len(last.docs) > Len(SeparatorLines) + 1
    /\ last.docs[1] = Marker

-----------------------------------------------------------------------------
(* Properties of the flags.                                                *)

\* the flags the constructor was given, and the value each stands for
CtorKeys == Range(ctor.args) \cup ((DOMAIN ctor.kwargs) \ {KwFailure, KwDoc})
CtorValue(k) == IF k \in DOMAIN ctor.kwargs THEN ctor.kwargs[k] ELSE PyTrue

\* the flags the last call was given, and the value each stands for
CallKeys == Range(last.args) \cup DOMAIN last.kwargs
CallValue(k) == IF k \in DOMAIN last.kwargs THEN last.kwargs[k] ELSE PyTrue

\* C3: the flags a call of run uses are the constructor's defaults overridden
\* by the call's own switches (as True) and keywords, the call's value
\* winning; the defaults the instance keeps are those of the constructor
\* after every call.
C3_CallOverridesDefaults ==
    (phase = "alive" /\ last.op = "run") =>
        /\ DOMAIN last.used = CtorKeys \cup CallKeys
        /\ \A k \in CallKeys : last.used[k] = CallValue(k)
        /\ \A k \in CtorKeys \ CallKeys : last.used[k] = CtorValue(k)
        /\ DOMAIN self.gmxargs = CtorKeys
        /\ \A k \in CtorKeys : self.gmxargs[k] = CtorValue(k)

C3_Witness ==
    /\ phase = "alive"
    /\ last.op = "run"
    /\ nruns = 2
    /\ \E k \in CtorKeys \cap CallKeys : last.used[k] # self.gmxargs[k]
    /\ \E k \in CtorKeys \ CallKeys : last.used[k] = PyFalse

\* a flag's name, without the leading dash it may have been given with
FlagName(k) == IF Len(k) > 0 /\ k[1] = "-" THEN Tail(k) ELSE k

RECURSIVE Concat(_, _)
Concat(order, blocks) ==
    IF Len(order) = 0 THEN <<>> ELSE blocks[order[1]] \o Concat(Tail(order), blocks)

\* the command line is the program followed by what each flag emitted, the
\* flags in some order
CommandOfEmitted(r) ==
    \E order \in [1..Cardinality(DOMAIN r.emitted) -> DOMAIN r.emitted] :
        /\ \A i, j \in DOMAIN order : i # j => order[i] # order[j]
        /\ r.command = <<ToolName>> \o Concat(order, r.emitted)

\* C4: a flag mapped to True emits exactly one token, the flag with one
\* leading dash; a flag mapped to False emits exactly one token, a dash, "no"
\* and the flag's name.
C4_BooleanFlags ==
    last.op = "run" =>
        /\ DOMAIN last.run.emitted = DOMAIN last.used
        /\ CommandOfEmitted(last.run)
        /\ \A k \in DOMAIN last.used :
              /\ last.used[k] = PyTrue =>
                    last.run.emitted[k] = << <<"-">> \o FlagName(k) >>
              /\ last.used[k] = PyFalse =>
                    last.run.emitted[k] = << <<"-", "n", "o">> \o FlagName(k) >>

C4_Witness ==
    /\ last.op = "run"
    /\ FlagV \in DOMAIN last.used /\ last.used[FlagV] = PyTrue
    /\ FlagDashV \in DOMAIN last.used /\ last.used[FlagDashV] = PyFalse
    /\ Len(last.run.command) = 3

\* the tokens the claim expects of a sequence value: the flag, then each
\* element as text
SequenceTokens(k, value) ==
    << <<"-">> \o FlagName(k) >> \o [i \in 1..Len(value.v) |-> Str(value.v[i])]

\* C5 as stated: a flag mapped to a sequence of any type, list or tuple,
\* emits the flag and one token per element, in order.
C5_AnySequenceFlag ==
    last.op = "run" =>
        \A k \in DOMAIN last.used :
            last.used[k].t \in {"list", "tuple"} =>
                last.run.emitted[k] = SequenceTokens(k, last.used[k])

\* C5 amended: a flag mapped to a list emits the flag and one token per
\* element, in order, each as text.
C5_ListFlag ==
    last.op = "run" =>
        /\ CommandOfEmitted(last.run)
        /\ \A k \in DOMAIN last.used :
              last.used[k].t = "list" =>
                  last.run.emitted[k] = SequenceTokens(k, last.used[k])

C5_Witness ==
    /\ last.op = "run"
    /\ FlagF \in DOMAIN last.used
    /\ last.used[FlagF] = PyList(<<PyInt(7), PyStr(<<"md.xtc">>)>>)
    /\ last.run.emitted[FlagF] = << <<"-", "f">>, <<"7">>, <<"md.xtc">> >>

\* C6: an input that is a sequence is fed as its elements as text, joined
\* with newlines and ended by one newline, through a pipe; an input that is
\* a string is fed as it is.
C6_InputPayload ==
    (last.op = "run" /\ KwInput \in DOMAIN last.kwargs) =>
        /\ last.kwargs[KwInput].t \in {"list", "tuple"} =>
              /\ last.run.input =
                    PyStr(JoinText(<<"\n">>,
                                   [i \in 1..Len(last.kwargs[KwInput].v) |->
                                       Str(last.kwargs[KwInput].v[i])]) \o <<"\n">>)
              /\ last.run.stdin = PIPE
        /\ last.kwargs[KwInput].t = "str" => last.run.input = last.kwargs[KwInput]

-----------------------------------------------------------------------------
(* Properties of the registry scan.                                        *)

\* how often name is in list xs
Count(xs, name) == Cardinality({ i \in 1..Len(xs) : xs[i] = name })

\* C7: the scan never raises for a tool that is not found; such a tool's
\* name is in the missing list exactly once and not in the available list.
C7_NotFoundIsMissing ==
    /\ scan # "raised"
    /\ \A c \in DOMAIN attempts :
          attempts[c].spawn = "ENOENT" =>
              /\ Count(missing, attempts[c].name) = 1
              /\ Count(have, attempts[c].name) = 0

C7_Witness ==
    /\ scan = "done"
    /\ \E c \in DOMAIN attempts :
          /\ attempts[c].spawn = "ENOENT"
          /\ attempts[c].exc.type = "OSError"
          /\ attempts[c].name \in Range(missing)
    /\ Len(have) > 0

\* C10 as stated: after the scan every catalog entry was tried and every
\* name is in exactly one list, the missing list exactly when process
\* creation failed and the available list otherwise.
C10_Partition ==
    scan = "done" =>
        /\ todo = {}
        /\ DOMAIN attempts = Catalog
        /\ \A c \in Catalog :
              /\ Count(missing, InstanceName(c)) + Count(have, InstanceName(c)) = 1
              /\ Count(missing, InstanceName(c)) = 1 <=> attempts[c].spawn # "ok"

\* C10 amended: after the scan every catalog entry was tried and every name
\* is in at most one list: once in the missing list exactly when process
\* creation failed, once in the available list exactly when the constructor
\* returned, and in neither when the process was created and its non-zero
\* exit status made the constructor raise GromacsError.
C10_ScanOutcome ==
    scan = "done" =>
        /\ todo = {}
        /\ DOMAIN attempts = Catalog
        /\ \A c \in Catalog :
              /\ Count(missing, InstanceName(c)) + Count(have, InstanceName(c)) <= 1
              /\ Count(missing, InstanceName(c)) = 1 <=> attempts[c].spawn # "ok"
              /\ Count(have, InstanceName(c)) = 1 <=>
                    (attempts[c].spawn = "ok" /\ attempts[c].rc = 0)
              /\ (attempts[c].spawn = "ok" /\ attempts[c].rc # 0) =>
                    /\ attempts[c].exc.type = "GromacsError"
                    /\ Count(missing, InstanceName(c)) + Count(have, InstanceName(c)) = 0

C10_Witness ==
    /\ scan = "done"
    /\ Len(have) > 0
    /\ Len(missing) > 0
    /\ \E c \in Catalog :
          /\ attempts[c].exc.type = "GromacsError"
          /\ InstanceName(c) \notin Range(have) \cup Range(missing)

====
